---- MODULE Spec2Model ----
(***************************************************************************)
(* Model of the sales ledger of ERPlora/module-sales: document numbering    *)
(* (Sale.save, ParkedTicket.save), line-item tax computation                *)
(* (SaleItem.save), sale aggregation (Sale.calculate_totals), the           *)
(* finalize-sale request (complete_sale), parked tickets (park_ticket,      *)
(* parked_tickets_list, recover_parked_ticket), active carts               *)
(* (save_active_cart, load_active_cart, clear_active_cart) and cash         *)
(* registers (CashRegister, CashMovement).                                  *)
(*                                                                         *)
(* Money is held in cents (a DecimalField with decimal_places=2), percent   *)
(* rates in hundredths of a percent, the clock in hours.                    *)
(***************************************************************************)
EXTENDS Integers, Sequences, FiniteSets, TLC

VARIABLES
    now,          \* timezone.now(), in hours since the first modelled midnight
    sales,        \* table sales_sale: set of Sale rows
    tickets,      \* table sales_parkedticket: set of ParkedTicket rows
    nextSaleId,   \* next primary key of sales_sale
    nextTicketId, \* next primary key of sales_parkedticket
    pc,           \* per request: where the request stands
    saleInst,     \* per request: the in-memory Sale instance being saved
    ticketInst,   \* per request: the in-memory ParkedTicket instance being saved
    response,     \* the response that the latest finished request returned
    nsaves,       \* history: how many save() calls have generated a number
    lastGen,      \* history: per prefix, the number the latest save() generated
    issued,       \* history: every number an INSERT has persisted so far
    tax_included, \* StoreConfig.get_solo().tax_included
    sale_items,   \* table sales_saleitem: set of SaleItem rows
    nextItemId,   \* next primary key of sales_saleitem
    totalled,     \* history: the sales whose totals calculate_totals has
                  \* computed from the lines they have now
    products,     \* the inventory's Product table: id -> its row
    active_carts, \* table sales_active_cart: set of ActiveCart rows
    nextCartId,   \* next primary key of sales_active_cart
    cartInst,     \* per request: what save_active_cart is about to create
    lastSaved,    \* history: per employee, the items of the latest save
                  \* since the latest clear
    parked,       \* history: per ticket id, the items the park request carried
    itemsLeft,    \* per request: the items complete_sale has yet to go through
    registers,    \* table sales_cashregister: set of CashRegister rows
    movements,    \* table sales_cashmovement: set of CashMovement rows
    nextRegisterId, \* next primary key of sales_cashregister
    nextMovementId  \* next primary key of sales_cashmovement

vars == <<now, sales, tickets, nextSaleId, nextTicketId, pc, saleInst,
          ticketInst, response, nsaves, lastGen, issued,
          tax_included, sale_items, nextItemId, totalled,
          products, active_carts, nextCartId, cartInst, lastSaved, parked, itemsLeft,
          registers, movements, nextRegisterId, nextMovementId>>

\* the cash registers and their movements
drawer == <<registers, movements, nextRegisterId, nextMovementId>>

\* the inventory and the active carts
shop == <<products, active_carts, nextCartId, cartInst, lastSaved>>

\* the store configuration, the line items and the shop
ledger == <<tax_included, sale_items, nextItemId, totalled, shop>>

(***************************************************************************)
(* Bounds of the model.                                                     *)
(***************************************************************************)
NumProcs == 2     \* concurrent requests
MaxNow == 48      \* the clock stops here (hours)
MaxSaves == 2     \* save() calls that generate a number
SeedHigh == 9999  \* highest suffix already present when the model starts
MaxItems == 2     \* line items created
MaxCarts == 2     \* active carts created
MaxRegisters == 1 \* cash registers opened
MaxMovements == 2 \* cash movements created

Procs == 1..NumProcs

(***************************************************************************)
(* Program constants.                                                       *)
(***************************************************************************)
PadWidth == 4      \* '{new_num:04d}'
ExpiryHours == 24  \* timedelta(hours=24)

(***************************************************************************)
(* Strings of decimal digits: formatting, parsing, ordering.                *)
(***************************************************************************)
RECURSIVE Digits(_)
\* str(n) for n >= 0, as a sequence of digit characters
Digits(n) == IF n < 10 THEN <<n>> ELSE Append(Digits(n \div 10), n % 10)

RECURSIVE ZeroPad(_, _)
\* the 0-fill of a format spec: pads to at least w characters, never truncates
ZeroPad(ds, w) == IF Len(ds) >= w THEN ds ELSE ZeroPad(<<0>> \o ds, w)

\* f'{n:04d}'
FormatSuffix(n) == ZeroPad(Digits(n), PadWidth)

RECURSIVE ParseInt(_)
\* int(s) of a digit string
ParseInt(ds) ==
    IF ds = <<>> THEN 0
    ELSE 10 * ParseInt(SubSeq(ds, 1, Len(ds) - 1)) + ds[Len(ds)]

RECURSIVE StrLess(_, _)
\* s < t as the database orders strings: character by character, a proper
\* prefix first
StrLess(s, t) ==
    IF s = <<>> THEN t # <<>>
    ELSE IF t = <<>> THEN FALSE
    ELSE IF Head(s) # Head(t) THEN Head(s) < Head(t)
    ELSE StrLess(Tail(s), Tail(t))

(***************************************************************************)
(* decimal.Decimal, non-negative: a coefficient of decimal digits, most     *)
(* significant first and without leading zeros (<<>> is zero), times ten to *)
(* the exponent e.  Every operation rounds its result to the context        *)
(* precision of 28 significant digits, half to even, as the default         *)
(* context does.                                                            *)
(***************************************************************************)
Prec == 28        \* decimal.getcontext().prec
MantissaBits == 53 \* significand of a Python float (IEEE 754 binary64)

RECURSIVE StripZeros(_)
StripZeros(ds) ==
    IF ds # <<>> /\ Head(ds) = 0 THEN StripZeros(Tail(ds)) ELSE ds

RECURSIVE DigitsBase(_, _)
\* the digits of n > 0 in a base, most significant first; <<>> for 0
DigitsBase(n, base) ==
    IF n = 0 THEN <<>> ELSE Append(DigitsBase(n \div base, base), n % base)

Front(ds) == SubSeq(ds, 1, Len(ds) - 1)
Last(ds) == ds[Len(ds)]

RECURSIVE Incr(_, _)
\* a digit string plus one
Incr(ds, base) ==
    IF ds = <<>> THEN <<1>>
    ELSE IF Last(ds) < base - 1 THEN Append(Front(ds), Last(ds) + 1)
    ELSE Append(Incr(Front(ds), base), 0)

\* the first `keep` digits of ds (0 <= keep < Len(ds)), the dropped digits
\* rounded half to even (ROUND_HALF_EVEN, and the rounding of binary64)
RoundDigits(ds, keep, base) ==
    LET kept == SubSeq(ds, 1, keep)
        first == ds[keep + 1]
        sticky == \E i \in (keep + 2)..Len(ds) : ds[i] # 0
        odd == keep > 0 /\ ds[keep] % 2 = 1
        up == \/ 2 * first > base
              \/ 2 * first = base /\ (sticky \/ odd)
    IN IF up THEN Incr(kept, base) ELSE kept

RECURSIVE Zeros(_)
Zeros(n) == IF n <= 0 THEN <<>> ELSE <<0>> \o Zeros(n - 1)

Dec(c, e) == [c |-> c, e |-> e]

\* Decimal(n).scaleb(e) for an integer n >= 0
DecOf(n, e) == Dec(DigitsBase(n, 10), e)

\* the context rounding applied to the result of an operation
DecRound(x) ==
    IF Len(x.c) <= Prec THEN x
    ELSE Dec(RoundDigits(x.c, Prec, 10), x.e + (Len(x.c) - Prec))

RECURSIVE MulDigits(_, _, _)
\* a digit string times a small integer k, plus a carry
MulDigits(ds, k, carry) ==
    IF ds = <<>> THEN DigitsBase(carry, 10)
    ELSE LET v == Last(ds) * k + carry
         IN Append(MulDigits(Front(ds), k, v \div 10), v % 10)

\* x * y; the coefficient of y is small enough to be held in an integer
DecMul(x, y) ==
    DecRound(Dec(StripZeros(MulDigits(x.c, ParseInt(y.c), 0)), x.e + y.e))

RECURSIVE DivDigits(_, _, _, _)
\* long division: the digits of r/b after those in acc, until Prec
\* significant digits are out or the division ends; k counts the digits
\* after the point
DivDigits(r, b, acc, k) ==
    IF r = 0 \/ Len(acc) >= Prec
    THEN [c |-> IF 2 * r > b \/ (2 * r = b /\ acc # <<>> /\ Last(acc) % 2 = 1)
                THEN Incr(acc, 10) ELSE acc,
          k |-> k]
    ELSE LET d == (10 * r) \div b
         IN DivDigits((10 * r) % b, b,
                      IF acc = <<>> /\ d = 0 THEN acc ELSE Append(acc, d), k + 1)

\* x / y for small coefficients, correctly rounded to Prec digits
DecDiv(x, y) ==
    LET a == ParseInt(x.c)
        b == ParseInt(y.c)
        q == DivDigits(a % b, b, DigitsBase(a \div b, 10), 0)
    IN Dec(q.c, x.e - y.e - q.k)

RECURSIVE Pow10(_)
Pow10(n) == IF n = 0 THEN 1 ELSE 10 * Pow10(n - 1)

\* the integer x / 10^e of a Decimal with small coefficient and x.e >= e
Scaled(x, e) == ParseInt(x.c) * Pow10(x.e - e)

Min(a, b) == IF a < b THEN a ELSE b

\* x + y and x - y (x >= y) for small coefficients: exact
DecAdd(x, y) == LET e == Min(x.e, y.e) IN DecOf(Scaled(x, e) + Scaled(y, e), e)
DecSub(x, y) == LET e == Min(x.e, y.e) IN DecOf(Scaled(x, e) - Scaled(y, e), e)

\* x.quantize(Decimal('0.01')), as the number of cents
Quantize(x) ==
    IF x.e >= -2 THEN Scaled(x, -2)
    ELSE LET drop == (-2) - x.e
             ds == ZeroPad(x.c, drop + 1)
         IN ParseInt(RoundDigits(ds, Len(ds) - drop, 10))

\* a DecimalField(decimal_places=2) value, held in hundredths
Cents(n) == DecOf(n, -2)

(***************************************************************************)
(* float, non-negative: a significand of bits, most significant first, no   *)
(* leading or trailing zero bit (<<>> is 0.0), times two to the exponent e. *)
(***************************************************************************)
Flt(m, e) == [m |-> m, e |-> e]

RECURSIVE Normal(_, _)
\* drops the trailing zero bits of a significand
Normal(m, e) ==
    IF m = <<>> THEN Flt(<<>>, 0)
    ELSE IF Last(m) = 0 THEN Normal(Front(m), e + 1)
    ELSE Flt(m, e)

RECURSIVE BinDigits(_, _, _, _)
\* the bits of r/b after those in acc, until 53 significant bits are out
BinDigits(r, b, acc, k) ==
    IF r = 0 \/ Len(acc) >= MantissaBits
    THEN [m |-> IF 2 * r > b \/ (2 * r = b /\ acc # <<>> /\ Last(acc) % 2 = 1)
                THEN Incr(acc, 2) ELSE acc,
          k |-> k]
    ELSE LET d == (2 * r) \div b
         IN BinDigits((2 * r) % b, b,
                      IF acc = <<>> /\ d = 0 THEN acc ELSE Append(acc, d), k + 1)

\* -x of a float x > 0
FltNeg(x) == [m |-> x.m, e |-> x.e, negative |-> TRUE]

\* float(d) of a two-place Decimal of n cents: the double nearest to n/100
ToFloat(n) ==
    LET a == IF n < 0 THEN -n ELSE n
        q == BinDigits(a % 100, 100, DigitsBase(a \div 100, 2), 0)
    IN IF n < 0 THEN FltNeg(Normal(q.m, -q.k)) ELSE Normal(q.m, -q.k)

(***************************************************************************)
(* SaleItem.save: the amounts of one line.  unit_price in cents; quantity,  *)
(* discount_percent and tax_rate in hundredths (two decimal places each).   *)
(***************************************************************************)
Amounts(net, tax, total) == [net_amount |-> net, tax_amount |-> tax, line_total |-> total]

\* the tax-included branch with the tax rounded on its own
TaxIncludedIndependentTax(discounted_price, quantity, tax_rate) ==
    LET tax_divisor == DecAdd(DecOf(1, 0), DecDiv(Cents(tax_rate), DecOf(100, 0)))
        net_unit == DecDiv(discounted_price, tax_divisor)
        net_amount == Quantize(DecMul(net_unit, Cents(quantity)))
        line_total == Quantize(DecMul(discounted_price, Cents(quantity)))
        tax_amount == Quantize(DecMul(DecMul(net_unit, DecDiv(Cents(tax_rate), DecOf(100, 0))),
                                      Cents(quantity)))
    IN Amounts(net_amount, tax_amount, line_total)

\* tax is already included in the price: extract it
TaxIncludedAmounts(discounted_price, quantity, tax_rate) ==
    LET tax_divisor == DecAdd(DecOf(1, 0), DecDiv(Cents(tax_rate), DecOf(100, 0)))
        net_unit == DecDiv(discounted_price, tax_divisor)
        net_amount == Quantize(DecMul(net_unit, Cents(quantity)))
        line_total == Quantize(DecMul(discounted_price, Cents(quantity)))
        tax_amount == Quantize(DecSub(Cents(line_total), Cents(net_amount)))
    IN Amounts(net_amount, tax_amount, line_total)

\* tax needs to be added to the price
TaxExcludedAmounts(discounted_price, quantity, tax_rate) ==
    LET net_amount == Quantize(DecMul(discounted_price, Cents(quantity)))
        tax_amount == Quantize(DecMul(Cents(net_amount),
                                      DecDiv(Cents(tax_rate), DecOf(100, 0))))
        line_total == Quantize(DecAdd(Cents(net_amount), Cents(tax_amount)))
    IN Amounts(net_amount, tax_amount, line_total)

\* unit_price - unit_price * (discount_percent / 100)
DiscountedPrice(unit_price, discount_percent) ==
    LET discount_amount ==
            DecMul(Cents(unit_price), DecDiv(Cents(discount_percent), DecOf(100, 0)))
    IN DecSub(Cents(unit_price), discount_amount)

\* amounts with a sign put on them
Signed(sign, magnitude) ==
    Amounts(sign * magnitude.net_amount, sign * magnitude.tax_amount,
            sign * magnitude.line_total)

Abs(n) == IF n < 0 THEN -n ELSE n
Sign(n) == IF n < 0 THEN -1 ELSE 1

\* the body of SaleItem.save.  A Decimal is a sign and a magnitude, and every
\* operation rounds the magnitude: the amounts of a negative price or
\* quantity are those of the magnitudes, with the sign of the product
LineAmounts(unit_price, quantity, discount_percent, tax_rate, included) ==
    Signed(Sign(unit_price) * Sign(quantity),
           IF included
           THEN TaxIncludedAmounts(DiscountedPrice(Abs(unit_price), discount_percent),
                                   Abs(quantity), tax_rate)
           ELSE TaxExcludedAmounts(DiscountedPrice(Abs(unit_price), discount_percent),
                                   Abs(quantity), tax_rate))

\* timezone.now().strftime('%Y%m%d'): the calendar day of an instant
DateKey(t) == 20250101 + (t \div 24)

\* A document number '{prefix}-{YYYYMMDD}-{suffix}' is held by its three parts.
DocNumber(prefix, date, suffix) ==
    [prefix |-> prefix, date |-> date, suffix |-> suffix]

\* what a request hands back: who asked and how it ended
Response(p, result) == [proc |-> p, result |-> result]

\* the empty string of a number field that was never set
NoNumber == DocNumber("", 0, <<>>)

\* s < t for two document numbers; numbers of one prefix and day agree on the
\* first 13 characters and on the '-' after them
NumberLess(a, b) ==
    IF a.prefix # b.prefix THEN a.prefix = "PARK" /\ b.prefix = "SALE"
    ELSE IF a.date # b.date THEN a.date < b.date
    ELSE StrLess(a.suffix, b.suffix)

StartsWithPrefixOnly(n, prefix, date) == n.prefix = prefix

\* sale_number__startswith=f'SALE-{today}'
StartsWith(n, prefix, date) == n.prefix = prefix /\ n.date = date

\* .order_by('-sale_number').first() over a non-empty set of numbers
LastNumber(numbers) ==
    CHOOSE n \in numbers : \A m \in numbers : m = n \/ NumberLess(m, n)

\* the number generation of Sale.save and ParkedTicket.save
GenerateNumber(numbers, prefix, date) ==
    LET matching == {n \in numbers : StartsWith(n, prefix, date)}
        new_num == IF matching # {}
                   THEN ParseInt(LastNumber(matching).suffix) + 1
                   ELSE 1
    IN DocNumber(prefix, date, FormatSuffix(new_num))

NeverViolated(numbers, n) == FALSE

\* unique=True on sale_number / ticket_number: the INSERT raises IntegrityError
UniqueViolation(numbers, n) == n \in numbers

SaleNumbers == {s.sale_number : s \in sales}
TicketNumbers == {t.ticket_number : t \in tickets}

(***************************************************************************)
(* Rows.                                                                    *)
(***************************************************************************)
\* the keyword arguments of Sale.objects.create() that the totals read
SaleDefaults == [amount_paid |-> 0, discount_amount |-> 0, status |-> "pending"]

\* a Sale as Sale.objects.create(**kwargs) builds it before save()
NewSaleWith(kwargs) ==
    [id |-> 0, sale_number |-> NoNumber, status |-> kwargs.status,
     subtotal |-> 0, tax_amount |-> 0, tax_breakdown |-> <<>>,
     discount_amount |-> kwargs.discount_amount, total |-> 0,
     amount_paid |-> kwargs.amount_paid, change_given |-> 0,
     payment_method |-> "cash", cash_register |-> 0]

NewSale == NewSaleWith(SaleDefaults)

\* a ParkedTicket as ParkedTicket.objects.create(cart_data=...) builds it
NewTicket(items) ==
    [id |-> 0, ticket_number |-> NoNumber, items |-> items, notes |-> "",
     created_at |-> 0, expires_at |-> 0]

\* what a park request carried, kept under the id its ticket was given
Parked(id, items) == [id |-> id, items |-> items]

\* carts a park request may carry
Carts == {<<>>, <<1>>}

Seeds == {0, SeedHigh}

SeedSales(seed) ==
    IF seed = 0 THEN {}
    ELSE {[NewSale EXCEPT !.id = 1,
            !.sale_number = DocNumber("SALE", DateKey(0), FormatSuffix(seed))]}

SeedTickets(seed) ==
    IF seed = 0 THEN {}
    ELSE {[NewTicket(<<1>>) EXCEPT !.id = 1,
            !.ticket_number = DocNumber("PARK", DateKey(0), FormatSuffix(seed)),
            !.expires_at = ExpiryHours]}

SeedNumbers(seed) ==
    {s.sale_number : s \in SeedSales(seed)}
        \cup {t.ticket_number : t \in SeedTickets(seed)}

\* the employees whose carts are kept
Employees == {"Ana", "Unknown"}

\* nothing saved since the latest clear: load_active_cart answers with
\* {'items': []}
NoCart == [stored |-> FALSE, items |-> <<>>]

\* the items of a save that has been committed
Saved(items) == [stored |-> TRUE, items |-> items]

\* a request that is not in the middle of save_active_cart
NoCartRequest == [employee_name |-> "", items |-> <<>>, id |-> 0]

\* the answer to a request on the cart of an employee: success true
CartAnswer(p, employee_name, result) ==
    [proc |-> p, result |-> result, employee_name |-> employee_name]

\* success false: the exception that the closing except Exception caught
CartFailed(p, employee_name, view) ==
    [proc |-> p, result |-> "error", employee_name |-> employee_name, view |-> view]

\* the answer of load_active_cart: success true and the cart_data
Loaded(p, employee_name, items) ==
    [proc |-> p, result |-> "loaded", employee_name |-> employee_name,
     cart_data |-> [items |-> items]]

\* a product of the inventory plugin, as far as complete_sale reads it
Product(stock, is_service, tax_rate) ==
    [stock |-> stock, is_service |-> is_service, tax_rate |-> tax_rate]

\* the catalogue: a physical product and a service; product 3 was deleted
InitProducts ==
    (1 :> Product(5, FALSE, 2100)) @@ (2 :> Product(0, TRUE, 1000))

ProductIds == {1, 2, 3}

\* the inventory and the active carts when the model starts
InitShop ==
    /\ products = InitProducts
    /\ active_carts = {}
    /\ nextCartId = 1
    /\ cartInst = [p \in Procs |-> NoCartRequest]
    /\ lastSaved = [e \in Employees |-> NoCart]
    /\ parked = {Parked(t.id, t.items) : t \in tickets}
    /\ itemsLeft = [p \in Procs |-> <<>>]
    /\ registers = {}
    /\ movements = {}
    /\ nextRegisterId = 1
    /\ nextMovementId = 1

Init ==
    \E seed \in Seeds :
        /\ now = 0
        /\ sales = SeedSales(seed)
        /\ tickets = SeedTickets(seed)
        /\ nextSaleId = IF seed = 0 THEN 1 ELSE 2
        /\ nextTicketId = IF seed = 0 THEN 1 ELSE 2
        /\ pc = [p \in Procs |-> "idle"]
        /\ saleInst = [p \in Procs |-> NewSale]
        /\ ticketInst = [p \in Procs |-> NewTicket(<<>>)]
        /\ response = Response(0, "none")
        /\ nsaves = 0
        /\ lastGen = [x \in {"SALE", "PARK"} |->
                        IF seed = 0 THEN NoNumber
                        ELSE DocNumber(x, DateKey(0), FormatSuffix(seed))]
        /\ issued = SeedNumbers(seed)
        /\ tax_included = TRUE
        /\ sale_items = {}
        /\ nextItemId = 1
        /\ totalled = {}
        /\ InitShop

(***************************************************************************)
(* Sale.save                                                                *)
(***************************************************************************)
\* Sale.objects.create(): save() finds no sale_number and generates one
SaleSaveGenerate(p, kwargs) ==
    /\ pc[p] = "idle"
    /\ nsaves < MaxSaves
    /\ LET number == GenerateNumber(SaleNumbers, "SALE", DateKey(now))
       IN /\ saleInst' = [saleInst EXCEPT ![p] =
                 [NewSaleWith(kwargs) EXCEPT !.sale_number = number]]
          /\ lastGen' = [lastGen EXCEPT !["SALE"] = number]
    /\ nsaves' = nsaves + 1
    /\ pc' = [pc EXCEPT ![p] = "sale_insert"]
    /\ UNCHANGED <<parked, itemsLeft, drawer, response, now, sales, tickets, nextSaleId, nextTicketId, ticketInst, issued>>
    /\ UNCHANGED ledger

\* super().save(): the INSERT, refused when the number is taken
SaleSaveInsert(p) ==
    /\ pc[p] = "sale_insert"
    /\ IF UniqueViolation(SaleNumbers, saleInst[p].sale_number)
       THEN /\ response' = Response(p, "IntegrityError")
            /\ UNCHANGED <<sales, nextSaleId, issued>>
       ELSE /\ sales' = sales \cup {[saleInst[p] EXCEPT !.id = nextSaleId]}
            /\ nextSaleId' = nextSaleId + 1
            /\ issued' = issued \cup {saleInst[p].sale_number}
            /\ response' = Response(p, "ok")
    /\ pc' = [pc EXCEPT ![p] = "idle"]
    /\ saleInst' = [saleInst EXCEPT ![p] = NewSale]
    /\ UNCHANGED <<parked, itemsLeft, drawer, now, tickets, nextTicketId, ticketInst, nsaves, lastGen>>
    /\ UNCHANGED ledger

\* the admin's delete of a Sale; its items go with it (on_delete=CASCADE)
DeleteSale(id) ==
    /\ \E s \in sales : s.id = id
    /\ sales' = {s \in sales : s.id # id}
    /\ sale_items' = {i \in sale_items : i.sale # id}
    /\ totalled' = totalled \ {id}
    /\ UNCHANGED <<parked, itemsLeft, drawer, now, tickets, nextSaleId, nextTicketId, pc, saleInst,
                   ticketInst, response, nsaves, lastGen, issued,
                   tax_included, nextItemId, shop>>

(***************************************************************************)
(* park_ticket, ParkedTicket.save, recover_parked_ticket                    *)
(***************************************************************************)
\* an expiry that every save() sets anew
ExpiresAtEverySave(self) == now + ExpiryHours

\* ParkedTicket.save: the expiry is set if it is not set, 24 hours from now
ExpiresAt(self) ==
    IF self.expires_at = 0 THEN now + ExpiryHours ELSE self.expires_at

\* park_ticket up to the number generation of ParkedTicket.save
ParkTicketGenerate(p, items) ==
    /\ pc[p] = "idle"
    /\ nsaves < MaxSaves
    /\ IF items = <<>>
       THEN /\ response' = Response(p, "No items in cart to park")
            /\ UNCHANGED <<pc, ticketInst, nsaves, lastGen>>
       ELSE LET number == GenerateNumber(TicketNumbers, "PARK", DateKey(now))
            IN /\ ticketInst' = [ticketInst EXCEPT ![p] =
                      [NewTicket(items) EXCEPT !.ticket_number = number,
                                               !.expires_at = ExpiresAt(NewTicket(items))]]
               /\ lastGen' = [lastGen EXCEPT !["PARK"] = number]
               /\ nsaves' = nsaves + 1
               /\ pc' = [pc EXCEPT ![p] = "park_insert"]
               /\ UNCHANGED response
    /\ UNCHANGED <<now, sales, tickets, nextSaleId, nextTicketId, saleInst, issued,
                   parked, itemsLeft, drawer>>
    /\ UNCHANGED ledger

\* super().save() of the ticket, where auto_now_add stamps created_at, and
\* the response of park_ticket
ParkTicketInsert(p) ==
    /\ pc[p] = "park_insert"
    /\ IF UniqueViolation(TicketNumbers, ticketInst[p].ticket_number)
       THEN /\ response' = Response(p, "IntegrityError")
            /\ UNCHANGED <<tickets, nextTicketId, issued, parked>>
       ELSE /\ tickets' = tickets \cup {[ticketInst[p] EXCEPT !.id = nextTicketId,
                                                             !.created_at = now]}
            /\ parked' = parked \cup {Parked(nextTicketId, ticketInst[p].items)}
            /\ nextTicketId' = nextTicketId + 1
            /\ issued' = issued \cup {ticketInst[p].ticket_number}
            /\ response' = Response(p, "ok")
    /\ pc' = [pc EXCEPT ![p] = "idle"]
    /\ ticketInst' = [ticketInst EXCEPT ![p] = NewTicket(<<>>)]
    /\ UNCHANGED <<now, sales, nextSaleId, saleInst, nsaves, lastGen, drawer, itemsLeft>>
    /\ UNCHANGED ledger

\* expired from the hour of the expiry on
IsExpiredAtExpiry(t) == now >= t.expires_at

\* ParkedTicket.is_expired
IsExpired(t) == now > t.expires_at

\* a recovery refused by recover_parked_ticket itself: success false and an
\* error that names the ticket
RecoverFailed(p, id, error) == [proc |-> p, result |-> error, ticket_id |-> id]

\* a snapshot without its items
EmptyCartData(ticket) == [items |-> <<>>]

\* cart_data = ticket.cart_data, the JSON object that park_ticket stored
CartData(ticket) == [items |-> ticket.items]

\* a recovery granted: success true and the cart_data of the ticket
Recovered(p, ticket) ==
    [proc |-> p, result |-> "recovered", ticket_id |-> ticket.id,
     cart_data |-> CartData(ticket)]

\* recover_parked_ticket; the Http404 of get_object_or_404 is caught by the
\* closing except Exception and answered with success false and its message,
\* which names no ticket
RecoverParkedTicket(p, id) ==
    /\ pc[p] = "idle"
    /\ IF \E t \in tickets : t.id = id
       THEN LET ticket == CHOOSE t \in tickets : t.id = id
            IN IF IsExpired(ticket)
               THEN /\ response' = RecoverFailed(p, id, "expired")
                    /\ UNCHANGED tickets
               ELSE /\ tickets' = tickets \ {ticket}
                    /\ response' = Recovered(p, ticket)
       ELSE /\ response' = Response(p, "not found")
            /\ UNCHANGED tickets
    /\ UNCHANGED <<now, sales, nextSaleId, nextTicketId, pc, saleInst,
                   ticketInst, nsaves, lastGen, issued, parked, itemsLeft, drawer>>
    /\ UNCHANGED ledger

\* parked_tickets_list: the tickets that are not expired when the list is
\* read (newest first in the code; the order is not kept here)
ParkedTicketsList(p) ==
    /\ pc[p] = "idle"
    /\ response' = [proc |-> p, result |-> "list",
                    tickets |-> {t.id : t \in {u \in tickets : ~IsExpired(u)}}]
    /\ UNCHANGED <<now, sales, tickets, nextSaleId, nextTicketId, pc, saleInst,
                   ticketInst, nsaves, lastGen, issued, parked, itemsLeft, drawer>>
    /\ UNCHANGED ledger

\* a stored ticket saved again with other notes (the admin's change form):
\* ParkedTicket.save finds the number and the expiry set
ResaveTicket(id, notes) ==
    /\ \A q \in Procs : pc[q] = "idle"
    /\ \E ticket \in tickets :
          /\ ticket.id = id
          /\ ticket.notes # notes
          /\ tickets' = (tickets \ {ticket}) \cup
                 {[ticket EXCEPT !.notes = notes, !.expires_at = ExpiresAt(ticket)]}
    /\ UNCHANGED <<now, sales, nextSaleId, nextTicketId, pc, saleInst,
                   ticketInst, response, nsaves, lastGen, issued, parked, itemsLeft, drawer>>
    /\ UNCHANGED ledger

\* time passes between two requests
Pass(hours) ==
    /\ \A q \in Procs : pc[q] = "idle"
    /\ now + hours <= MaxNow
    /\ now' = now + hours
    /\ UNCHANGED <<sales, tickets, nextSaleId, nextTicketId, pc, saleInst,
                   ticketInst, response, nsaves, lastGen, issued, parked, itemsLeft, drawer>>
    /\ UNCHANGED ledger

\* time passes: the clock moves on by a day
Tick ==
    /\ now + 24 <= MaxNow
    /\ now' = now + 24
    /\ UNCHANGED <<sales, tickets, nextSaleId, nextTicketId, pc, saleInst,
                   ticketInst, response, nsaves, lastGen, issued, parked, itemsLeft, drawer>>
    /\ UNCHANGED ledger

Next ==
    \/ \E p \in Procs : SaleSaveGenerate(p, SaleDefaults)
    \/ \E p \in Procs : SaleSaveInsert(p)
    \/ \E id \in 1..(MaxSaves + 1) : DeleteSale(id)
    \/ \E p \in Procs, items \in Carts : ParkTicketGenerate(p, items)
    \/ \E p \in Procs : ParkTicketInsert(p)
    \/ \E p \in Procs, id \in 1..(MaxSaves + 1) : RecoverParkedTicket(p, id)
    \/ Tick

Spec == Init /\ [][Next]_vars

(***************************************************************************)
(* The same saves with one request at a time and nothing deleted.           *)
(***************************************************************************)
Quiet(p) == \A q \in Procs \ {p} : pc[q] = "idle"

SeqSaleSaveGenerate(p) == Quiet(p) /\ SaleSaveGenerate(p, SaleDefaults)
SeqSaleSaveInsert(p) == Quiet(p) /\ SaleSaveInsert(p)
SeqParkTicketGenerate(p, items) == Quiet(p) /\ ParkTicketGenerate(p, items)
SeqParkTicketInsert(p) == Quiet(p) /\ ParkTicketInsert(p)

NextSeq ==
    \/ \E p \in Procs : SeqSaleSaveGenerate(p)
    \/ \E p \in Procs : SeqSaleSaveInsert(p)
    \/ \E p \in Procs, items \in Carts : SeqParkTicketGenerate(p, items)
    \/ \E p \in Procs : SeqParkTicketInsert(p)
    \/ Tick

SpecSeq == Init /\ [][NextSeq]_vars

(***************************************************************************)
(* One request at a time, with the deletions.                               *)
(***************************************************************************)
SeqDeleteSale(id) == (\A q \in Procs : pc[q] = "idle") /\ DeleteSale(id)
SeqRecoverParkedTicket(p, id) == Quiet(p) /\ RecoverParkedTicket(p, id)

NextSeqDel ==
    \/ NextSeq
    \/ \E id \in 1..(MaxSaves + 1) : SeqDeleteSale(id)
    \/ \E p \in Procs, id \in 1..(MaxSaves + 1) : SeqRecoverParkedTicket(p, id)

SpecSeqDel == Init /\ [][NextSeqDel]_vars

(***************************************************************************)
(* SaleItem.objects.create and Sale.calculate_totals                        *)
(***************************************************************************)
\* the values of one line as the cart hands them over
Line(unit_price, quantity, discount_percent, tax_rate) ==
    [unit_price |-> unit_price, quantity |-> quantity,
     discount_percent |-> discount_percent, tax_rate |-> tax_rate]

\* the row that SaleItem.save stores for a line
NewSaleItem(id, sid, line) ==
    LET amounts == LineAmounts(line.unit_price, line.quantity,
                               line.discount_percent, line.tax_rate, tax_included)
    IN [id |-> id, sale |-> sid,
        unit_price |-> line.unit_price, quantity |-> line.quantity,
        discount_percent |-> line.discount_percent, tax_rate |-> line.tax_rate,
        net_amount |-> amounts.net_amount, tax_amount |-> amounts.tax_amount,
        line_total |-> amounts.line_total]

\* SaleItem.objects.create(sale=..., ...): save() computes the amounts under
\* the store's tax_included setting, then the row is inserted
CreateSaleItem(sid, line) ==
    /\ \E s \in sales : s.id = sid
    /\ Cardinality(sale_items) < MaxItems
    /\ sale_items' = sale_items \cup {NewSaleItem(nextItemId, sid, line)}
    /\ nextItemId' = nextItemId + 1
    /\ totalled' = totalled \ {sid}
    /\ UNCHANGED <<parked, itemsLeft, drawer, now, sales, tickets, nextSaleId, nextTicketId, pc, saleInst,
                   ticketInst, response, nsaves, lastGen, issued, tax_included, shop>>

RECURSIVE OrderById(_)
\* self.items.all(): the rows of a sale in the order of Meta.ordering = ['id']
OrderById(rows) ==
    IF rows = {} THEN <<>>
    ELSE LET first == CHOOSE i \in rows : \A j \in rows : i.id <= j.id
         IN <<first>> \o OrderById(rows \ {first})

\* str(item.tax_rate) of a two-place Decimal: the digits before and after
\* the point
RateKey(tax_rate) ==
    <<Digits(tax_rate \div 100), ZeroPad(Digits(tax_rate % 100), 2)>>

\* the running sums before the loop; the breakdown is a dict, held as its
\* entries in insertion order
ZeroTotals ==
    [total_net |-> 0, total_tax |-> 0, total_gross |-> 0, tax_breakdown |-> <<>>]

AddItemNetOnly(acc, item) ==
    [acc EXCEPT !.total_net = @ + item.net_amount,
                !.total_tax = @ + item.tax_amount,
                !.total_gross = @ + item.net_amount]

\* the body of the loop over the items
AddItem(acc, item) ==
    LET rate_key == RateKey(item.tax_rate)
        seen == \E k \in 1..Len(acc.tax_breakdown) : acc.tax_breakdown[k].rate = rate_key
        entries == IF seen THEN acc.tax_breakdown
                   ELSE Append(acc.tax_breakdown, [rate |-> rate_key, base |-> 0, tax |-> 0])
    IN [total_net |-> acc.total_net + item.net_amount,
        total_tax |-> acc.total_tax + item.tax_amount,
        total_gross |-> acc.total_gross + item.line_total,
        tax_breakdown |->
            [k \in 1..Len(entries) |->
                IF entries[k].rate = rate_key
                THEN [rate |-> rate_key,
                      base |-> entries[k].base + item.net_amount,
                      tax |-> entries[k].tax + item.tax_amount]
                ELSE entries[k]]]

RECURSIVE ForEachItem(_, _)
\* for item in self.items.all()
ForEachItem(rows, acc) ==
    IF rows = <<>> THEN acc ELSE ForEachItem(Tail(rows), AddItem(acc, Head(rows)))

\* the serializable breakdown: base and tax of each entry as floats
Serializable(tax_breakdown) ==
    [k \in 1..Len(tax_breakdown) |->
        [rate |-> tax_breakdown[k].rate,
         base |-> ToFloat(tax_breakdown[k].base),
         tax |-> ToFloat(tax_breakdown[k].tax)]]

ChangeUnclamped(amount_paid, total) == amount_paid - total

\* the change of a payment
ChangeGiven(amount_paid, total) ==
    IF amount_paid > total THEN amount_paid - total ELSE 0

\* the fields calculate_totals sets on a sale from the rows of its items
WithTotals(self, rows) ==
    LET acc == ForEachItem(OrderById(rows), ZeroTotals)
        total == acc.total_gross - self.discount_amount
    IN [self EXCEPT !.subtotal = acc.total_net,
                    !.tax_amount = acc.total_tax,
                    !.tax_breakdown = Serializable(acc.tax_breakdown),
                    !.total = total,
                    !.change_given = ChangeGiven(self.amount_paid, total)]

\* sale.calculate_totals(), its closing self.save() included
CalculateTotals(sid) ==
    /\ \E s \in sales : s.id = sid
    /\ LET self == CHOOSE s \in sales : s.id = sid
       IN sales' = (sales \ {self}) \cup
              {WithTotals(self, {i \in sale_items : i.sale = sid})}
    /\ totalled' = totalled \cup {sid}
    /\ UNCHANGED <<parked, itemsLeft, drawer, now, tickets, nextSaleId, nextTicketId, pc, saleInst,
                   ticketInst, response, nsaves, lastGen, issued,
                   tax_included, sale_items, nextItemId, shop>>

(***************************************************************************)
(* One sale from an empty ledger: created, given its lines, totalled.       *)
(***************************************************************************)
InitLedger ==
    /\ now = 0
    /\ sales = {}
    /\ tickets = {}
    /\ nextSaleId = 1
    /\ nextTicketId = 1
    /\ pc = [p \in Procs |-> "idle"]
    /\ saleInst = [p \in Procs |-> NewSale]
    /\ ticketInst = [p \in Procs |-> NewTicket(<<>>)]
    /\ response = Response(0, "none")
    /\ nsaves = 0
    /\ lastGen = [x \in {"SALE", "PARK"} |-> NoNumber]
    /\ issued = {}
    /\ tax_included \in BOOLEAN
    /\ sale_items = {}
    /\ nextItemId = 1
    /\ totalled = {}
    /\ InitShop

\* amounts tendered and sale discounts, in cents
AmountsPaid == {0, 30, 5000}
DiscountAmounts == {0, 5, 50}
LedgerKwargs ==
    [amount_paid : AmountsPaid, discount_amount : DiscountAmounts, status : {"pending"}]

\* lines of the ledger runs
LedgerLines ==
    {Line(10, 100, 0, 2100), Line(20, 100, 0, 1000),
     Line(1210, 100, 0, 2100), Line(1000, 200, 1000, 2100)}

SaleIds == 1..(MaxSaves + 1)

\* the first sale of the ledger
FirstSaleSaveGenerate(kwargs) ==
    /\ sales = {}
    /\ \A q \in Procs : pc[q] = "idle"
    /\ \E p \in Procs : p = 1 /\ SaleSaveGenerate(p, kwargs)

NextLedger ==
    \/ \E kwargs \in LedgerKwargs : FirstSaleSaveGenerate(kwargs)
    \/ \E p \in Procs : SaleSaveInsert(p)
    \/ \E sid \in SaleIds, line \in LedgerLines : CreateSaleItem(sid, line)
    \/ \E sid \in SaleIds : CalculateTotals(sid)

SpecLedger == InitLedger /\ [][NextLedger]_vars

(***************************************************************************)
(* The store's tax policy changed while lines are stored and saved again.   *)
(***************************************************************************)
\* the store's settings form sets StoreConfig.tax_included, which
\* SaleItem.save reads on every call
SetTaxIncluded(value) ==
    /\ \A q \in Procs : pc[q] = "idle"
    /\ tax_included # value
    /\ tax_included' = value
    /\ UNCHANGED <<parked, itemsLeft, drawer, now, sales, tickets, nextSaleId,
                   nextTicketId, pc, saleInst, ticketInst, response, nsaves,
                   lastGen, issued, sale_items, nextItemId, totalled, shop>>

\* a stored line computed again from its own inputs under the policy of now
Recomputed(item) ==
    NewSaleItem(item.id, item.sale,
        Line(item.unit_price, item.quantity, item.discount_percent, item.tax_rate))

\* item.save() of a stored line whose inputs were not changed (the admin's
\* change form saved as it is): save() computes the amounts again and the
\* row is updated
ResaveItem(id) ==
    /\ \E i \in sale_items : i.id = id
    /\ LET item == CHOOSE i \in sale_items : i.id = id
       IN /\ sale_items' = (sale_items \ {item}) \cup {Recomputed(item)}
          /\ totalled' = IF Recomputed(item) = item THEN totalled
                         ELSE totalled \ {item.sale}
    /\ UNCHANGED <<parked, itemsLeft, drawer, now, sales, tickets, nextSaleId,
                   nextTicketId, pc, saleInst, ticketInst, response, nsaves,
                   lastGen, issued, tax_included, nextItemId, shop>>

\* the lines of the policy runs
PolicyLines == {Line(1210, 100, 0, 2100), Line(1000, 200, 1000, 2100)}

ItemIds == 1..MaxItems

NextPolicy ==
    \/ \E kwargs \in LedgerKwargs : FirstSaleSaveGenerate(kwargs)
    \/ \E p \in Procs : SaleSaveInsert(p)
    \/ \E sid \in SaleIds, line \in PolicyLines : CreateSaleItem(sid, line)
    \/ \E sid \in SaleIds : CalculateTotals(sid)
    \/ \E value \in BOOLEAN : SetTaxIncluded(value)
    \/ \E id \in ItemIds : ResaveItem(id)

SpecPolicy == InitLedger /\ [][NextPolicy]_vars

(***************************************************************************)
(* One line saved on a sale, over a grid of prices, quantities, discounts   *)
(* and rates.                                                               *)
(***************************************************************************)
UnitPrices == {0, 1, 2, 4, 5, 25}
Quantities == {0, 30, 50, 100, 180, 200, 225}
DiscountPercents == {0, 1000, 5000, 10000}
TaxRates == {0, 1000, 2000, 2100}

LineInputs ==
    {Line(u, q, d, r) : u \in UnitPrices, q \in Quantities,
                        d \in DiscountPercents, r \in TaxRates}
        \cup {Line(1210, 100, 0, 2100), Line(1000, 200, 1000, 2100)}

\* the first line of a sale
FirstSaleItem(sid, line) == sale_items = {} /\ CreateSaleItem(sid, line)

NextLine ==
    \/ FirstSaleSaveGenerate(SaleDefaults)
    \/ \E p \in Procs : SaleSaveInsert(p)
    \/ \E sid \in SaleIds, line \in LineInputs : FirstSaleItem(sid, line)

SpecLine == InitLedger /\ [][NextLine]_vars

(***************************************************************************)
(* complete_sale                                                            *)
(***************************************************************************)
\* one entry of the request's items
CartItem(product_id, quantity, price, discount) ==
    [product_id |-> product_id, quantity |-> quantity,
     price |-> price, discount |-> discount, quantity_text |-> FALSE]

\* the same entry with its quantity sent as a JSON string ("1.5") instead of
\* a JSON number
AsText(item_data) == [item_data EXCEPT !.quantity_text = TRUE]

\* int(item_data['quantity']) raises ValueError for a string that holds a
\* fraction; Decimal(str(...)) of the same string does not
IntRaises(item_data) == item_data.quantity_text /\ item_data.quantity % 100 # 0

\* str(e) of the exceptions the loop over the items may raise
NoError == ""
DoesNotExist == "error"
InvalidLiteral == "invalid literal for int()"

\* int(item_data['quantity']) of a quantity held in hundredths
IntPart(quantity) ==
    IF quantity >= 0 THEN quantity \div 100 ELSE -((-quantity) \div 100)

\* where the loop over the items stands: the rows of sales_saleitem, the
\* next primary key, the Product table, and whether an exception was raised
LoopState(rows, next, prods, error) ==
    [rows |-> rows, next |-> next, products |-> prods,
     failed |-> error # NoError, error |-> error]

RECURSIVE CreateItems(_, _, _)
\* for item_data in items: Product.objects.get raises DoesNotExist for a
\* product that is gone, and what was written before it stays written
CreateItems(items, sid, st) ==
    IF items = <<>> THEN st
    ELSE LET item_data == Head(items)
         IN IF item_data.product_id \notin DOMAIN st.products
            THEN [st EXCEPT !.failed = TRUE, !.error = DoesNotExist]
            ELSE LET product == st.products[item_data.product_id]
                     row == NewSaleItem(st.next, sid,
                                Line(item_data.price, item_data.quantity,
                                     item_data.discount, product.tax_rate))
                     stock == IF product.is_service THEN product.stock
                              ELSE product.stock - IntPart(item_data.quantity)
                 IN IF ~product.is_service /\ IntRaises(item_data)
                    THEN LoopState(st.rows \cup {row}, st.next + 1, st.products,
                                   InvalidLiteral)
                    ELSE CreateItems(Tail(items), sid,
                            LoopState(st.rows \cup {row}, st.next + 1,
                                      [st.products EXCEPT ![item_data.product_id].stock = stock],
                                      NoError))

\* what complete_sale has written once its Sale is in and the loop over the
\* items has ended at st: an exception ends the request with the error and
\* nothing is undone, otherwise the totals are calculated
SaleWritten(p, sale, st) ==
    /\ nextSaleId' = nextSaleId + 1
    /\ sale_items' = st.rows
    /\ nextItemId' = st.next
    /\ products' = st.products
    /\ IF st.failed
       THEN /\ sales' = sales \cup {sale}
            /\ response' = Response(p, st.error)
            /\ UNCHANGED totalled
       ELSE /\ sales' = sales \cup {WithTotals(sale, {i \in st.rows : i.sale = sale.id})}
            /\ totalled' = totalled \cup {sale.id}
            /\ response' = Response(p, "ok")

\* an empty cart answered after the Sale was created
NoSaleAfterCreate(p) ==
    /\ response' = Response(p, "No items in cart")
    /\ sales' = sales \cup {[NewSale EXCEPT !.id = nextSaleId]}
    /\ nextSaleId' = nextSaleId + 1
    /\ UNCHANGED <<sale_items, nextItemId, products, totalled, nsaves, lastGen, issued>>

\* if not items: the request is answered before anything is created
NoSale(p) ==
    /\ response' = Response(p, "No items in cart")
    /\ UNCHANGED <<sales, nextSaleId, sale_items, nextItemId, products,
                   totalled, nsaves, lastGen, issued>>

\* the whole of complete_sale; the cash movement of the cash_register plugin
\* is outside this repository
CompleteSale(p, items, amount_paid) ==
    /\ pc[p] = "idle"
    /\ IF items = <<>>
       THEN NoSale(p)
       ELSE /\ nsaves < MaxSaves
            /\ Cardinality(sale_items) + Len(items) <= MaxItems
            /\ nsaves' = nsaves + 1
            /\ LET number == GenerateNumber(SaleNumbers, "SALE", DateKey(now))
               IN /\ lastGen' = [lastGen EXCEPT !["SALE"] = number]
                  /\ IF UniqueViolation(SaleNumbers, number)
                     THEN /\ response' = Response(p, "error")
                          /\ UNCHANGED <<sales, nextSaleId, sale_items, nextItemId,
                                         products, totalled, issued>>
                     ELSE /\ issued' = issued \cup {number}
                          /\ SaleWritten(p,
                                [NewSaleWith([amount_paid |-> amount_paid,
                                              discount_amount |-> 0,
                                              status |-> "completed"])
                                    EXCEPT !.sale_number = number, !.id = nextSaleId],
                                CreateItems(items, nextSaleId,
                                    LoopState(sale_items, nextItemId, products, NoError)))
    /\ UNCHANGED <<now, tickets, nextTicketId, pc, saleInst, ticketInst,
                   tax_included, active_carts, nextCartId, cartInst, lastSaved, parked, itemsLeft, drawer>>

(***************************************************************************)
(* Sales finalized and carts parked, one request at a time.                 *)
(***************************************************************************)
GoodItem == CartItem(1, 200, 1000, 1000)
ServiceItem == CartItem(2, 100, 1210, 0)
GoneItem == CartItem(3, 100, 500, 0)
ReturnedItem == CartItem(1, -100, 1000, 0)
NegativePriceItem == CartItem(2, 100, -500, 0)
HalfItem == AsText(CartItem(1, 150, 1000, 0))

\* the carts a finalize request may carry
SaleCarts ==
    {<<>>, <<GoodItem>>, <<GoodItem, ServiceItem>>, <<GoodItem, GoneItem>>,
     <<GoneItem>>, <<ReturnedItem>>, <<NegativePriceItem>>, <<HalfItem>>}

\* amounts tendered with a finalize request, in cents
Tendered == {0, 5000}

SeqCompleteSale(p, items, amount_paid) == Quiet(p) /\ CompleteSale(p, items, amount_paid)

NextSale ==
    \/ \E p \in Procs, items \in SaleCarts, amount_paid \in Tendered :
          SeqCompleteSale(p, items, amount_paid)
    \/ \E p \in Procs, items \in Carts : SeqParkTicketGenerate(p, items)
    \/ \E p \in Procs : SeqParkTicketInsert(p)

SpecSale == InitLedger /\ [][NextSale]_vars

\* no sale, ticket or cart yet, in a store whose prices include the tax
InitStore == InitLedger /\ tax_included

(***************************************************************************)
(* complete_sale, write by write: the view runs outside any transaction, so *)
(* each of its writes is committed, and can be read, as soon as it is made. *)
(***************************************************************************)
\* Sale.objects.create(..., status=Sale.STATUS_COMPLETED): the sale is
\* inserted as completed, its totals at their defaults
CompleteSaleCreate(p, items, amount_paid) ==
    /\ pc[p] = "idle"
    /\ items # <<>>
    /\ nsaves < MaxSaves
    /\ Cardinality(sale_items) + Len(items) <= MaxItems
    /\ nsaves' = nsaves + 1
    /\ LET number == GenerateNumber(SaleNumbers, "SALE", DateKey(now))
           sale == [NewSaleWith([amount_paid |-> amount_paid,
                                 discount_amount |-> 0,
                                 status |-> "completed"])
                       EXCEPT !.sale_number = number, !.id = nextSaleId]
       IN /\ lastGen' = [lastGen EXCEPT !["SALE"] = number]
          /\ IF UniqueViolation(SaleNumbers, number)
             THEN /\ response' = Response(p, "error")
                  /\ UNCHANGED <<sales, nextSaleId, issued, pc, saleInst, itemsLeft>>
             ELSE /\ issued' = issued \cup {number}
                  /\ sales' = sales \cup {sale}
                  /\ nextSaleId' = nextSaleId + 1
                  /\ saleInst' = [saleInst EXCEPT ![p] = sale]
                  /\ itemsLeft' = [itemsLeft EXCEPT ![p] = items]
                  /\ pc' = [pc EXCEPT ![p] = "sale_items"]
                  /\ UNCHANGED response
    /\ UNCHANGED <<now, tickets, nextTicketId, ticketInst, tax_included,
                   sale_items, nextItemId, totalled, shop, parked, drawer>>

\* one turn of the loop over the items: the product is fetched, the line
\* created, the stock of a physical product decremented
CompleteSaleItem(p) ==
    /\ pc[p] = "sale_items"
    /\ itemsLeft[p] # <<>>
    /\ LET st == CreateItems(<<Head(itemsLeft[p])>>, saleInst[p].id,
                     LoopState(sale_items, nextItemId, products, NoError))
       IN /\ sale_items' = st.rows
          /\ nextItemId' = st.next
          /\ products' = st.products
          /\ IF st.failed
             THEN /\ response' = Response(p, st.error)
                  /\ pc' = [pc EXCEPT ![p] = "idle"]
                  /\ saleInst' = [saleInst EXCEPT ![p] = NewSale]
                  /\ itemsLeft' = [itemsLeft EXCEPT ![p] = <<>>]
             ELSE /\ itemsLeft' = [itemsLeft EXCEPT ![p] = Tail(@)]
                  /\ UNCHANGED <<response, pc, saleInst>>
    /\ UNCHANGED <<now, sales, tickets, nextSaleId, nextTicketId, ticketInst,
                   nsaves, lastGen, issued, tax_included, totalled,
                   active_carts, nextCartId, cartInst, lastSaved, parked, drawer>>

\* sale.calculate_totals() after the loop: the in-memory sale is given its
\* totals and saved, and the request answers
CompleteSaleTotals(p) ==
    /\ pc[p] = "sale_items"
    /\ itemsLeft[p] = <<>>
    /\ sales' = {s \in sales : s.id # saleInst[p].id} \cup
           {WithTotals(saleInst[p], {i \in sale_items : i.sale = saleInst[p].id})}
    /\ totalled' = totalled \cup {saleInst[p].id}
    /\ response' = Response(p, "ok")
    /\ pc' = [pc EXCEPT ![p] = "idle"]
    /\ saleInst' = [saleInst EXCEPT ![p] = NewSale]
    /\ UNCHANGED <<now, tickets, nextSaleId, nextTicketId, ticketInst, nsaves,
                   lastGen, issued, tax_included, sale_items, nextItemId, shop,
                   parked, drawer, itemsLeft>>

\* the carts of the concurrent finalize requests
RacingSaleCarts == {<<GoodItem>>, <<GoodItem, ServiceItem>>, <<ServiceItem, GoneItem>>}

NextFinalize ==
    \/ \E p \in Procs, items \in RacingSaleCarts, amount_paid \in Tendered :
          CompleteSaleCreate(p, items, amount_paid)
    \/ \E p \in Procs : CompleteSaleItem(p)
    \/ \E p \in Procs : CompleteSaleTotals(p)

SpecFinalize == InitStore /\ [][NextFinalize]_vars

(***************************************************************************)
(* Tickets parked, listed, saved again and recovered, one request at a      *)
(* time, while the clock moves on by half days.                             *)
(***************************************************************************)
\* carts a park request may carry
ParkCarts == {<<>>, <<1>>, <<2, 1>>}

\* notes the change form may leave on a ticket
Notes == {"", "hold"}

\* hours that pass at once
Waits == {12, 24}

\* the ids a recovery may ask for: every id that can be given to a ticket
TicketIds == 1..MaxSaves

SeqParkedTicketsList(p) == Quiet(p) /\ ParkedTicketsList(p)

NextPark ==
    \/ \E p \in Procs, items \in ParkCarts : SeqParkTicketGenerate(p, items)
    \/ \E p \in Procs : SeqParkTicketInsert(p)
    \/ \E p \in Procs, id \in TicketIds : SeqRecoverParkedTicket(p, id)
    \/ \E p \in Procs : SeqParkedTicketsList(p)
    \/ \E id \in TicketIds, notes \in Notes : ResaveTicket(id, notes)
    \/ \E hours \in Waits : Pass(hours)

SpecPark == InitStore /\ [][NextPark]_vars

(***************************************************************************)
(* recover_parked_ticket, query by query: the SELECT of get_object_or_404   *)
(* and the DELETE of ticket.delete() are two statements, and nothing locks  *)
(* the row between them.                                                    *)
(***************************************************************************)
\* get_object_or_404 and the check of is_expired: a ticket that is found and
\* not expired is held in memory
RecoverLookup(p, id) ==
    /\ pc[p] = "idle"
    /\ IF \E t \in tickets : t.id = id
       THEN LET ticket == CHOOSE t \in tickets : t.id = id
            IN IF IsExpired(ticket)
               THEN /\ response' = RecoverFailed(p, id, "expired")
                    /\ UNCHANGED <<pc, ticketInst>>
               ELSE /\ ticketInst' = [ticketInst EXCEPT ![p] = ticket]
                    /\ pc' = [pc EXCEPT ![p] = "recover_delete"]
                    /\ UNCHANGED response
       ELSE /\ response' = Response(p, "not found")
            /\ UNCHANGED <<pc, ticketInst>>
    /\ UNCHANGED <<now, sales, tickets, nextSaleId, nextTicketId, saleInst,
                   nsaves, lastGen, issued, parked, itemsLeft, drawer>>
    /\ UNCHANGED ledger

\* ticket.delete() and the answer: the DELETE of a row that is already gone
\* deletes nothing and raises nothing, and the answer carries the cart_data
\* that was read from the ticket in memory
RecoverDelete(p) ==
    /\ pc[p] = "recover_delete"
    /\ tickets' = {t \in tickets : t.id # ticketInst[p].id}
    /\ response' = Recovered(p, ticketInst[p])
    /\ pc' = [pc EXCEPT ![p] = "idle"]
    /\ ticketInst' = [ticketInst EXCEPT ![p] = NewTicket(<<>>)]
    /\ UNCHANGED <<now, sales, nextSaleId, nextTicketId, saleInst,
                   nsaves, lastGen, issued, parked, itemsLeft, drawer>>
    /\ UNCHANGED ledger

NextRecover ==
    \/ \E p \in Procs, items \in ParkCarts : ParkTicketGenerate(p, items)
    \/ \E p \in Procs : ParkTicketInsert(p)
    \/ \E p \in Procs, id \in TicketIds : RecoverLookup(p, id)
    \/ \E p \in Procs : RecoverDelete(p)
    \/ \E hours \in Waits : Pass(hours)

SpecRecover == InitStore /\ [][NextRecover]_vars

(***************************************************************************)
(* save_active_cart, load_active_cart, clear_active_cart                    *)
(***************************************************************************)
\* ActiveCart.objects.filter(employee_name=...)
CartsOf(carts, employee_name) == {c \in carts : c.employee_name = employee_name}

\* an ActiveCart row
ActiveCart(id, employee_name, items) ==
    [id |-> id, employee_name |-> employee_name, items |-> items]

\* the requests that have looked up no cart and are about to create one
Creating == {q \in Procs : pc[q] = "cart_create"}

\* save_active_cart up to the lookup of get_or_create: no row leads on to the
\* create, one row to the update, several rows raise MultipleObjectsReturned,
\* which ends the request with success false
SaveCartLookup(p, employee_name, items) ==
    /\ pc[p] = "idle"
    /\ LET found == CartsOf(active_carts, employee_name)
       IN IF found = {}
          THEN /\ nextCartId + Cardinality(Creating) <= MaxCarts
               /\ pc' = [pc EXCEPT ![p] = "cart_create"]
               /\ cartInst' = [cartInst EXCEPT ![p] =
                      [employee_name |-> employee_name, items |-> items, id |-> 0]]
               /\ UNCHANGED response
          ELSE IF Cardinality(found) = 1
          THEN /\ pc' = [pc EXCEPT ![p] = "cart_update"]
               /\ cartInst' = [cartInst EXCEPT ![p] =
                      [employee_name |-> employee_name, items |-> items,
                       id |-> (CHOOSE c \in found : TRUE).id]]
               /\ UNCHANGED response
          ELSE /\ response' = CartFailed(p, employee_name, "save")
               /\ UNCHANGED <<pc, cartInst>>
    /\ UNCHANGED <<now, sales, tickets, nextSaleId, nextTicketId, saleInst,
                   ticketInst, nsaves, lastGen, issued, tax_included, sale_items,
                   nextItemId, totalled, products, active_carts, nextCartId,
                   lastSaved, parked, itemsLeft, drawer>>

\* the create of get_or_create: nothing in the table refuses a second row
\* of the same employee
SaveCartCreate(p) ==
    /\ pc[p] = "cart_create"
    /\ active_carts' = active_carts \cup
           {ActiveCart(nextCartId, cartInst[p].employee_name, cartInst[p].items)}
    /\ nextCartId' = nextCartId + 1
    /\ lastSaved' = [lastSaved EXCEPT ![cartInst[p].employee_name] =
                        Saved(cartInst[p].items)]
    /\ response' = CartAnswer(p, cartInst[p].employee_name, "saved")
    /\ pc' = [pc EXCEPT ![p] = "idle"]
    /\ cartInst' = [cartInst EXCEPT ![p] = NoCartRequest]
    /\ UNCHANGED <<now, sales, tickets, nextSaleId, nextTicketId, saleInst,
                   ticketInst, nsaves, lastGen, issued, tax_included, sale_items,
                   nextItemId, totalled, products, parked, itemsLeft, drawer>>

\* cart_data with the new items put after the old ones
Merged(cart, items) == [cart EXCEPT !.items = cart.items \o items]

\* cart.cart_data = {'items': items}
Overwritten(cart, items) == [cart EXCEPT !.items = items]

\* cart.save() of the row that get_or_create found: an UPDATE by primary
\* key, and an INSERT under that key if the row is gone by now
SaveCartUpdate(p) ==
    /\ pc[p] = "cart_update"
    /\ LET cart == IF \E c \in active_carts : c.id = cartInst[p].id
                   THEN CHOOSE c \in active_carts : c.id = cartInst[p].id
                   ELSE ActiveCart(cartInst[p].id, cartInst[p].employee_name, <<>>)
       IN active_carts' = {c \in active_carts : c.id # cartInst[p].id} \cup
                             {Overwritten(cart, cartInst[p].items)}
    /\ lastSaved' = [lastSaved EXCEPT ![cartInst[p].employee_name] =
                        Saved(cartInst[p].items)]
    /\ response' = CartAnswer(p, cartInst[p].employee_name, "saved")
    /\ pc' = [pc EXCEPT ![p] = "idle"]
    /\ cartInst' = [cartInst EXCEPT ![p] = NoCartRequest]
    /\ UNCHANGED <<now, sales, tickets, nextSaleId, nextTicketId, saleInst,
                   ticketInst, nsaves, lastGen, issued, tax_included, sale_items,
                   nextItemId, totalled, products, nextCartId, parked, itemsLeft, drawer>>

\* load_active_cart: the cart_data of the one row, {'items': []} if there is
\* none, and success false if ActiveCart.objects.get finds several
LoadActiveCart(p, employee_name) ==
    /\ pc[p] = "idle"
    /\ LET found == CartsOf(active_carts, employee_name)
       IN response' =
             IF found = {} THEN Loaded(p, employee_name, <<>>)
             ELSE IF Cardinality(found) = 1
             THEN Loaded(p, employee_name, (CHOOSE c \in found : TRUE).items)
             ELSE CartFailed(p, employee_name, "load")
    /\ UNCHANGED <<now, sales, tickets, nextSaleId, nextTicketId, pc, saleInst,
                   ticketInst, nsaves, lastGen, issued, tax_included, sale_items,
                   nextItemId, totalled, products, active_carts, nextCartId,
                   cartInst, lastSaved, parked, itemsLeft, drawer>>

\* a clear that deletes one row of the employee
ClearedOne(carts, employee_name) ==
    IF CartsOf(carts, employee_name) = {} THEN carts
    ELSE carts \ {CHOOSE c \in CartsOf(carts, employee_name) : TRUE}

\* ActiveCart.objects.filter(employee_name=employee_name).delete()
Cleared(carts, employee_name) == carts \ CartsOf(carts, employee_name)

\* clear_active_cart
ClearActiveCart(p, employee_name) ==
    /\ pc[p] = "idle"
    /\ active_carts' = Cleared(active_carts, employee_name)
    /\ lastSaved' = [lastSaved EXCEPT ![employee_name] = NoCart]
    /\ response' = CartAnswer(p, employee_name, "cleared")
    /\ UNCHANGED <<now, sales, tickets, nextSaleId, nextTicketId, pc, saleInst,
                   ticketInst, nsaves, lastGen, issued, tax_included, sale_items,
                   nextItemId, totalled, products, nextCartId, cartInst, parked, itemsLeft, drawer>>

\* carts a save request may carry
SavedCarts == {<<>>, <<1>>, <<2, 1>>}

\* the carts of the saves that race
RacingCarts == {<<1>>, <<2, 1>>}

\* the requests on active carts, taken in any interleaving
NextCart ==
    \/ \E p \in Procs, e \in Employees, items \in RacingCarts : SaveCartLookup(p, e, items)
    \/ \E p \in Procs : SaveCartCreate(p)
    \/ \E p \in Procs : SaveCartUpdate(p)
    \/ \E p \in Procs, e \in Employees : LoadActiveCart(p, e)
    \/ \E p \in Procs, e \in Employees : ClearActiveCart(p, e)

SpecCart == InitStore /\ [][NextCart]_vars

(***************************************************************************)
(* The same requests on active carts, one at a time.                        *)
(***************************************************************************)
SeqSaveCartLookup(p, e, items) == Quiet(p) /\ SaveCartLookup(p, e, items)
SeqSaveCartCreate(p) == Quiet(p) /\ SaveCartCreate(p)
SeqSaveCartUpdate(p) == Quiet(p) /\ SaveCartUpdate(p)
SeqLoadActiveCart(p, e) == Quiet(p) /\ LoadActiveCart(p, e)
SeqClearActiveCart(p, e) == Quiet(p) /\ ClearActiveCart(p, e)

NextCartSeq ==
    \/ \E p \in Procs, e \in Employees, items \in SavedCarts :
          SeqSaveCartLookup(p, e, items)
    \/ \E p \in Procs : SeqSaveCartCreate(p)
    \/ \E p \in Procs : SeqSaveCartUpdate(p)
    \/ \E p \in Procs, e \in Employees : SeqLoadActiveCart(p, e)
    \/ \E p \in Procs, e \in Employees : SeqClearActiveCart(p, e)

SpecCartSeq == InitStore /\ [][NextCartSeq]_vars

(***************************************************************************)
(* CashRegister, CashMovement                                               *)
(***************************************************************************)
\* a nullable column: NULL, or a value
Null == <<>>
Value(v) == <<v>>

\* CashRegister.objects.create(initial_amount=...)
NewCashRegister(id, initial_amount) ==
    [id |-> id, status |-> "open", initial_amount |-> initial_amount,
     final_amount |-> Null, expected_amount |-> Null, difference |-> Null,
     closing_notes |-> "", closed_at |-> Null]

\* CashMovement.objects.create(cash_register=..., type=..., amount=...)
NewCashMovement(id, register, type, amount) ==
    [id |-> id, cash_register |-> register, type |-> type, amount |-> amount]

\* aggregate(total=Sum(field)) over rows, 0.00 when there is none
RECURSIVE SumBy(_, _)
SumBy(rows, field) ==
    IF rows = {} THEN 0
    ELSE LET r == CHOOSE r \in rows : TRUE
         IN r[field] + SumBy(rows \ {r}, field)

\* self.movements.filter(type=...)
MovementsOf(id, type) ==
    {m \in movements : m.cash_register = id /\ m.type = type}

\* self.sales.filter(payment_method=Sale.PAYMENT_CASH)
CashSalesOf(id) ==
    {s \in sales : s.cash_register = id /\ s.payment_method = "cash"}

\* CashRegister.calculate_expected_amount
CalculateExpectedAmount(self) ==
    self.initial_amount + SumBy(CashSalesOf(self.id), "total")
        + SumBy(MovementsOf(self.id, "in"), "amount")
        - SumBy(MovementsOf(self.id, "out"), "amount")

\* CashRegister.objects.create: a register is opened
OpenRegister(initial_amount) ==
    /\ \A q \in Procs : pc[q] = "idle"
    /\ nextRegisterId <= MaxRegisters
    /\ registers' = registers \cup {NewCashRegister(nextRegisterId, initial_amount)}
    /\ nextRegisterId' = nextRegisterId + 1
    /\ UNCHANGED <<now, sales, tickets, nextSaleId, nextTicketId, pc, saleInst,
                   ticketInst, response, nsaves, lastGen, issued, parked, itemsLeft,
                   movements, nextMovementId>>
    /\ UNCHANGED ledger

\* CashMovement.objects.create on a register, whatever its status
AddMovement(register, type, amount) ==
    /\ \A q \in Procs : pc[q] = "idle"
    /\ \E r \in registers : r.id = register
    /\ nextMovementId <= MaxMovements
    /\ movements' = movements \cup
           {NewCashMovement(nextMovementId, register, type, amount)}
    /\ nextMovementId' = nextMovementId + 1
    /\ UNCHANGED <<now, sales, tickets, nextSaleId, nextTicketId, pc, saleInst,
                   ticketInst, response, nsaves, lastGen, issued, parked, itemsLeft,
                   registers, nextRegisterId>>
    /\ UNCHANGED ledger

\* Sale.objects.create(cash_register=..., payment_method=..., status=...,
\* total=...): a sale attributed to a register, whatever its status
AttributeSale(register, payment_method, status, total) ==
    /\ \A q \in Procs : pc[q] = "idle"
    /\ \E r \in registers : r.id = register
    /\ nsaves < MaxSaves
    /\ nsaves' = nsaves + 1
    /\ LET number == GenerateNumber(SaleNumbers, "SALE", DateKey(now))
       IN /\ lastGen' = [lastGen EXCEPT !["SALE"] = number]
          /\ IF UniqueViolation(SaleNumbers, number)
             THEN UNCHANGED <<sales, nextSaleId, issued>>
             ELSE /\ sales' = sales \cup
                        {[NewSale EXCEPT !.id = nextSaleId,
                                         !.sale_number = number,
                                         !.cash_register = register,
                                         !.payment_method = payment_method,
                                         !.status = status,
                                         !.total = total]}
                  /\ nextSaleId' = nextSaleId + 1
                  /\ issued' = issued \cup {number}
    /\ UNCHANGED <<now, tickets, nextTicketId, pc, saleInst, ticketInst, response,
                   parked, itemsLeft, drawer>>
    /\ UNCHANGED ledger

\* the row that close_register saves
Closed(self, final_amount, closing_notes) ==
    [self EXCEPT !.final_amount = Value(final_amount),
                 !.closing_notes = closing_notes,
                 !.closed_at = Value(now),
                 !.status = "closed",
                 !.expected_amount = Value(CalculateExpectedAmount(self)),
                 !.difference = Value(final_amount - CalculateExpectedAmount(self))]

\* register.close_register(final_amount, closing_notes)
CloseRegister(register, final_amount, closing_notes) ==
    /\ \A q \in Procs : pc[q] = "idle"
    /\ \E self \in registers :
          /\ self.id = register
          /\ registers' = (registers \ {self}) \cup
                 {Closed(self, final_amount, closing_notes)}
    /\ UNCHANGED <<now, sales, tickets, nextSaleId, nextTicketId, pc, saleInst,
                   ticketInst, response, nsaves, lastGen, issued, parked, itemsLeft,
                   movements, nextRegisterId, nextMovementId>>
    /\ UNCHANGED ledger

(***************************************************************************)
(* A register opened, given movements and sales, and closed.                *)
(***************************************************************************)
\* opening floats, in cents
InitialAmounts == {0, 10000}

\* the movements of the runs: 50.00 in, 20.00 out
MovementInputs == {<<"in", 5000>>, <<"out", 2000>>}

PaymentMethods == {"cash", "card", "mixed"}
Statuses == {"pending", "completed", "cancelled"}

\* totals of the attributed sales, in cents
SaleTotals == {7500}

\* amounts counted at the close, in cents
FinalAmounts == {20000, 15000}

ClosingNotes == {"End of day", "Recount"}

RegisterIds == 1..MaxRegisters

\* hours between two operations on a register
Shifts == {24}

NextDrawer ==
    \/ \E initial_amount \in InitialAmounts : OpenRegister(initial_amount)
    \/ \E id \in RegisterIds, mv \in MovementInputs : AddMovement(id, mv[1], mv[2])
    \/ \E id \in RegisterIds, method \in PaymentMethods, status \in Statuses,
          total \in SaleTotals : AttributeSale(id, method, status, total)
    \/ \E id \in RegisterIds, final_amount \in FinalAmounts, notes \in ClosingNotes :
          CloseRegister(id, final_amount, notes)
    \/ \E hours \in Shifts : Pass(hours)

SpecDrawer == InitStore /\ [][NextDrawer]_vars

(***************************************************************************)
(* Numbering claims.                                                        *)
(***************************************************************************)
Prefixes == {"SALE", "PARK"}
Dates == {DateKey(t) : t \in 0..MaxNow}

\* the numbers held by the table that a prefix is issued into
Numbers(x) == IF x = "SALE" THEN SaleNumbers ELSE TicketNumbers

\* the numbers of one (prefix, day) partition
InPartition(x, d) == {n \in Numbers(x) : n.prefix = x /\ n.date = d}

\* C1: concurrent creates on a day that started empty all succeed with the
\* numbers 0001..000N: no request is refused by the uniqueness constraint, and
\* the k numbers persisted so far that day are exactly 0001..000k.
StartedEmpty == \A n \in issued : ParseInt(n.suffix) <= MaxSaves

C1_ConcurrentSavesAllSucceed ==
    StartedEmpty =>
        /\ response.result # "IntegrityError"
        /\ \A x \in Prefixes, d \in Dates :
              {ParseInt(n.suffix) : n \in {m \in issued : m.prefix = x /\ m.date = d}}
                  = 1..Cardinality({m \in issued : m.prefix = x /\ m.date = d})

\* C2: a number that was once issued is never issued again: every number a
\* step newly persists is one that no INSERT has persisted before, deleted
\* or not.
C2_NumbersNeverReused ==
    [][\A x \in Prefixes : \A n \in Numbers(x)' \ Numbers(x) : n \notin issued]_vars

\* C3: with one request at a time and no deletion, a generated number is
\* '{prefix}-{YYYYMMDD}-{seq:04d}' where seq is 1 when the prefix has generated
\* nothing yet that day and otherwise one more than the number generated last.
SequentialAfter(prev, number) ==
    LET seq == IF prev # NoNumber /\ prev.date = number.date
               THEN ParseInt(prev.suffix) + 1
               ELSE 1
    IN number = DocNumber(number.prefix, DateKey(now), FormatSuffix(seq))

C3_SequentialIssuance ==
    [][\A p \in Procs :
          /\ (pc[p] = "idle" /\ pc'[p] = "sale_insert")
                => SequentialAfter(lastGen["SALE"], saleInst'[p].sale_number)
          /\ (pc[p] = "idle" /\ pc'[p] = "park_insert")
                => SequentialAfter(lastGen["PARK"], ticketInst'[p].ticket_number)]_vars

\* C4: each (prefix, day) partition starts at 0001 whatever the other
\* partitions hold, and the next number of a partition is decided by the
\* numbers of that partition alone, so that no number issued or deleted in
\* another partition changes it.
C4_PartitionsIndependent ==
    \A x \in Prefixes, d \in Dates :
        /\ InPartition(x, d) = {}
              => GenerateNumber(Numbers(x), x, d) = DocNumber(x, d, FormatSuffix(1))
        /\ GenerateNumber(Numbers(x), x, d) = GenerateNumber(InPartition(x, d), x, d)

\* a later day has started at 0001 while an earlier day holds a higher number
C4_Witness ==
    \E a, b \in SaleNumbers :
        /\ a.date < b.date
        /\ ParseInt(a.suffix) > 1
        /\ b.suffix = FormatSuffix(1)
        /\ \E t \in TicketNumbers : t.date = a.date

\* C5: no two persisted sales share a sale_number and no two persisted
\* tickets share a ticket_number.
C5_PersistedNumbersUnique ==
    /\ \A s, t \in sales : s.id # t.id => s.sale_number # t.sale_number
    /\ \A s, t \in tickets : s.id # t.id => s.ticket_number # t.ticket_number

\* a request whose generation raced has been refused, the other persisted
C5_Witness ==
    /\ response.result = "IntegrityError"
    /\ \E p \in Procs : pc[p] = "idle" /\ response.proc = p
    /\ \E s \in sales : s.sale_number.suffix = FormatSuffix(1)

(***************************************************************************)
(* Line and aggregation claims.                                             *)
(***************************************************************************)
\* C6: every line saved through SaleItem.save, under either value of
\* tax_included, stores line_total = net_amount + tax_amount to the cent.
C6_LineTotalIsNetPlusTax ==
    \A i \in sale_items : i.line_total = i.net_amount + i.tax_amount

\* a discounted line of a fractional quantity saved with the tax included,
\* its gross rounded, and tax extracted from it
C6_Witness ==
    \E i \in sale_items :
        /\ tax_included
        /\ i.quantity = 30 /\ i.discount_percent = 5000 /\ i.tax_rate = 2100
        /\ i.unit_price = 25
        /\ i.net_amount > 0 /\ i.tax_amount > 0

\* n/d rounded to an integer, the halves up (d even)
RoundHalfUp(n, d) == (n + d \div 2) \div d

\* n/d rounded to an integer, the halves to the even neighbour
RoundHalfEven(n, d) ==
    LET q == n \div d
        r == n % d
    IN IF 2 * r > d \/ (2 * r = d /\ q % 2 = 1) THEN q + 1 ELSE q

\* computeLine of the specification under a rounding rule round2, in cents:
\* discountedPrice = unitPrice x (1 - discountPercent/100), and
\* discountedPrice x quantity is gross / 10^6 cents
computeLine(round2(_, _), unitPrice, quantity, discountPercent, taxRate, taxIncluded) ==
    LET gross == unitPrice * (10000 - discountPercent) * quantity
    IN IF taxIncluded
       THEN LET netAmount == round2(gross, 100 * (10000 + taxRate))
                lineTotal == round2(gross, 1000000)
            IN Amounts(netAmount, lineTotal - netAmount, lineTotal)
       ELSE LET netAmount == round2(gross, 1000000)
                taxAmount == round2(netAmount * taxRate, 10000)
            IN Amounts(netAmount, taxAmount, netAmount + taxAmount)

\* C7: the amounts SaleItem.save stores are those of computeLine for the
\* line's inputs, round2 being round-half-up or the platform's rounding
\* (half to even).
C7_SaveComputesComputeLine ==
    \A i \in sale_items :
        LET stored == Amounts(i.net_amount, i.tax_amount, i.line_total)
        IN \/ stored = computeLine(RoundHalfUp, i.unit_price, i.quantity,
                                   i.discount_percent, i.tax_rate, tax_included)
           \/ stored = computeLine(RoundHalfEven, i.unit_price, i.quantity,
                                   i.discount_percent, i.tax_rate, tax_included)

\* the row of a sale and the rows of its items
SaleRow(sid) == CHOOSE s \in sales : s.id = sid
ItemsOfSale(sid) == {i \in sale_items : i.sale = sid}

RECURSIVE SumField(_, _)
\* the sum of one stored field over a set of rows
SumField(rows, field) ==
    IF rows = {} THEN 0
    ELSE LET r == CHOOSE x \in rows : TRUE
         IN r[field] + SumField(rows \ {r}, field)

TotalsAreSums(sid) ==
    LET s == SaleRow(sid)
        lines == ItemsOfSale(sid)
    IN /\ s.total = SumField(lines, "line_total") - s.discount_amount
       /\ s.subtotal = SumField(lines, "net_amount")
       /\ s.tax_amount = SumField(lines, "tax_amount")

\* C8: calculate_totals leaves total = sum of line_total - discount_amount,
\* subtotal = sum of net_amount and tax_amount = sum of tax_amount, each
\* summed from the stored values of the sale's lines.
C8_TotalsAreSumsOfLines ==
    \A sid \in totalled : TotalsAreSums(sid)

\* a discounted sale of two lines of different rates has been totalled
C8_Witness ==
    \E s \in sales :
        /\ s.id \in totalled
        /\ Len(s.tax_breakdown) = 2
        /\ s.discount_amount > 0
        /\ s.tax_amount > 0
        /\ s.total = s.subtotal + s.tax_amount - s.discount_amount

\* rounds a bit string to the 53 bits of a double, half to even
FltRound(m, e) ==
    IF Len(m) <= MantissaBits THEN Normal(m, e)
    ELSE Normal(RoundDigits(m, MantissaBits, 2), e + (Len(m) - MantissaBits))

RECURSIVE AddBits(_, _, _, _)
\* the sum of the first i bits of two bit strings of one length, with a carry
AddBits(a, b, i, carry) ==
    IF i = 0 THEN DigitsBase(carry, 2)
    ELSE LET v == a[i] + b[i] + carry
         IN IF v >= 2 THEN Append(AddBits(a, b, i - 1, 1), v - 2)
            ELSE Append(AddBits(a, b, i - 1, 0), v)

\* x + y of two floats
FltAdd(x, y) ==
    IF x.m = <<>> THEN y
    ELSE IF y.m = <<>> THEN x
    ELSE LET e == Min(x.e, y.e)
             a == x.m \o Zeros(x.e - e)
             b == y.m \o Zeros(y.e - e)
             n == IF Len(a) > Len(b) THEN Len(a) ELSE Len(b)
         IN FltRound(AddBits(Zeros(n - Len(a)) \o a, Zeros(n - Len(b)) \o b, n, 0), e)

RECURSIVE FloatSum(_)
\* the sum of a sequence of floats, taken from the left, from 0.0
FloatSum(fs) ==
    IF fs = <<>> THEN Flt(<<>>, 0)
    ELSE CHOOSE sum \in {FltAdd(part, Last(fs)) : part \in {FloatSum(Front(fs))}} : TRUE

BreakdownReconstructs(sid) ==
    LET s == SaleRow(sid)
        lines == ItemsOfSale(sid)
        bd == s.tax_breakdown
        carrying(k) == {i \in lines : RateKey(i.tax_rate) = bd[k].rate}
    IN /\ FloatSum([k \in 1..Len(bd) |-> bd[k].base]) = ToFloat(s.subtotal)
       /\ FloatSum([k \in 1..Len(bd) |-> bd[k].tax]) = ToFloat(s.tax_amount)
       /\ {bd[k].rate : k \in 1..Len(bd)} = {RateKey(i.tax_rate) : i \in lines}
       /\ \A k, l \in 1..Len(bd) : bd[k].rate = bd[l].rate => k = l
       /\ \A k \in 1..Len(bd) :
             /\ bd[k].base = ToFloat(SumField(carrying(k), "net_amount"))
             /\ bd[k].tax = ToFloat(SumField(carrying(k), "tax_amount"))

\* C9: after calculate_totals the bases of the breakdown add up to subtotal
\* and its taxes to tax_amount, and the entry of each rate holds the sums of
\* net_amount and tax_amount over exactly the lines of that rate.
C9_BreakdownReconstructsTotals ==
    \A sid \in totalled : BreakdownReconstructs(sid)

Max(a, b) == IF a > b THEN a ELSE b

ChangeIsClamped(sid) ==
    LET s == SaleRow(sid)
    IN /\ s.change_given = Max(s.amount_paid - s.total, 0)
       /\ s.amount_paid > s.total => s.change_given = s.amount_paid - s.total
       /\ s.amount_paid <= s.total => s.change_given = 0
       /\ s.change_given >= 0

\* C10: calculate_totals leaves change_given = max(amount_paid - total, 0):
\* the difference when more than the total was paid, 0 otherwise, never
\* negative, and a payment below the total is totalled like any other.
C10_ChangeIsClampedDifference ==
    \A sid \in totalled : ChangeIsClamped(sid)

\* a sale paid in part has been totalled and gives no change
C10_Witness ==
    \E s \in sales :
        /\ s.id \in totalled
        /\ s.tax_breakdown # <<>>
        /\ s.amount_paid > 0
        /\ s.amount_paid < s.total
        /\ s.change_given = 0

(***************************************************************************)
(* Claims on the errors of a finalize-sale request.                         *)
(***************************************************************************)
\* C11: a finalize-sale request that ends in an error leaves nothing of
\* itself behind: the step that answers with the error leaves the sales, the
\* sale items and the stock of the products as they were, and every sale
\* that is visible as completed has had its totals calculated.
C11_FailedSaleLeavesNothing ==
    /\ [](\A s \in sales : s.status = "completed" => s.id \in totalled)
    /\ [][(response' # response /\ response'.result = "error")
            => UNCHANGED <<sales, sale_items, products>>]_vars

\* the results that report an empty cart
EmptyCart == {"No items in cart", "No items in cart to park"}

\* the tables and everything that issues a document number
stores ==
    <<sales, sale_items, tickets, products, nextSaleId, nextItemId, nextTicketId,
      nsaves, lastGen, issued, totalled>>

\* C12: finalizing or parking a cart of zero lines is answered with the
\* empty-cart error and writes nothing: no sale, sale item or ticket is
\* created, no number is generated or issued, every store is unchanged.
C12_EmptyCartWritesNothing ==
    [][(response' # response /\ response'.result \in EmptyCart)
        => UNCHANGED stores]_vars

\* a finalize-sale request with an empty cart has been refused with a sale
\* and its items on the books and a ticket parked
C12_Witness ==
    /\ response.result = "No items in cart"
    /\ sale_items # {}
    /\ tickets # {}

\* C13: no line with a negative unit price or quantity, or with a negative
\* net_amount, tax_amount or line_total, is ever persisted.
C13_NoNegativeLinePersisted ==
    \A i \in sale_items :
        /\ i.unit_price >= 0
        /\ i.quantity >= 0
        /\ i.net_amount >= 0
        /\ i.tax_amount >= 0
        /\ i.line_total >= 0

\* C14: after calculate_totals a sale with a discount_amount >= 0 never
\* holds a negative total.
C14_TotalNeverNegative ==
    \A sid \in totalled :
        SaleRow(sid).discount_amount >= 0 => SaleRow(sid).total >= 0

(***************************************************************************)
(* Claims on parked tickets.                                                *)
(***************************************************************************)
\* the items that the park request of a ticket carried
ParkedItems(id) == (CHOOSE r \in parked : r.id = id).items

\* the tickets that were parked and are stored no more
Gone == {r.id : r \in parked} \ {t.id : t \in tickets}

C16_ExpiredRefusedAndUnlisted ==
    [][/\ \A p \in Procs, id \in TicketIds :
             RecoverParkedTicket(p, id) =>
                \A t \in tickets :
                    (t.id = id /\ now > t.expires_at) =>
                        /\ response'.result = "expired"
                        /\ "cart_data" \notin DOMAIN response'
                        /\ UNCHANGED tickets
       /\ \A p \in Procs :
             ParkedTicketsList(p) =>
                /\ response'.tickets = {t.id : t \in {u \in tickets : now <= u.expires_at}}
                /\ UNCHANGED tickets
       /\ \A t \in tickets :
             (~ \E u \in tickets' : u.id = t.id) =>
                /\ response'.result = "recovered"
                /\ response'.ticket_id = t.id
                /\ now <= t.expires_at]_vars

\* a list has been read while an expired ticket was stored, and it holds the
\* ticket that is exactly at its expiry and not the expired one
C16_Witness ==
    /\ response.result = "list"
    /\ \E t \in tickets : now > t.expires_at /\ t.id \notin response.tickets
    /\ \E u \in tickets : now = u.expires_at /\ u.id \in response.tickets

\* C17: every stored ticket expires 24 hours after its creation; no step
\* changes the creation time or the expiry of a stored ticket; a recovery is
\* granted only within 24 hours of the creation.
C17_ExpiryFixedAtCreation ==
    /\ [](\A t \in tickets : t.expires_at = t.created_at + ExpiryHours)
    /\ [][\A t \in tickets, u \in tickets' :
             u.id = t.id =>
                 u.expires_at = t.expires_at /\ u.created_at = t.created_at]_vars
    /\ [][\A t \in tickets :
             (response' # response /\ response'.result = "recovered"
                 /\ response'.ticket_id = t.id) =>
                 now <= t.created_at + ExpiryHours]_vars

\* a ticket saved again with notes is past its expiry, and its recovery has
\* been refused
C17_Witness ==
    /\ response.result = "expired"
    /\ \E t \in tickets :
          /\ t.id = response.ticket_id
          /\ t.notes = "hold"
          /\ now > t.created_at + ExpiryHours

(***************************************************************************)
(* Claims on active carts.                                                  *)
(***************************************************************************)
\* C18: no employee ever has more than one active-cart row, whatever the
\* interleaving of the saves, and no load is answered with a failure.
C18_OneCartPerOperator ==
    /\ \A e \in Employees : Cardinality(CartsOf(active_carts, e)) <= 1
    /\ ~ (response.result = "error" /\ "view" \in DOMAIN response)

\* the other employees
Others(e) == Employees \ {e}

\* the rows of every employee but e are what they were
OthersKept(e) ==
    \A e2 \in Others(e) : CartsOf(active_carts', e2) = CartsOf(active_carts, e2)

\* C19: with one request at a time, load answers with exactly the items of
\* the employee's latest save since the latest clear, and with success and
\* no items, creating no row, when nothing is stored; a save or a clear for
\* one employee leaves the rows of every other employee as they were.
C19_LoadReturnsLastSave ==
    [][/\ \A p \in Procs, e \in Employees :
             LoadActiveCart(p, e) =>
                /\ response' = Loaded(p, e, lastSaved[e].items)
                /\ (~ lastSaved[e].stored) => response'.cart_data.items = <<>>
                /\ UNCHANGED <<active_carts, nextCartId>>
       /\ \A p \in Procs, e \in Employees :
             (ClearActiveCart(p, e)
                 \/ \E items \in SavedCarts : SaveCartLookup(p, e, items)) =>
                OthersKept(e)
       /\ \A p \in Procs :
             (SaveCartCreate(p) \/ SaveCartUpdate(p)) =>
                OthersKept(cartInst[p].employee_name)]_vars

\* a load has returned the two items an employee saved, while the other
\* employee holds a cart of one item
C19_Witness ==
    /\ response.result = "loaded"
    /\ response.cart_data.items = <<2, 1>>
    /\ lastSaved[response.employee_name] = Saved(<<2, 1>>)
    /\ \E e \in Others(response.employee_name) : lastSaved[e] = Saved(<<1>>)

\* C20: clear succeeds whether or not the employee has a cart, leaves no
\* row of that employee and every other row as it was, and a second clear
\* would change nothing.
C20_ClearIsIdempotentDelete ==
    [][\A p \in Procs, e \in Employees :
          ClearActiveCart(p, e) =>
             /\ response' = CartAnswer(p, e, "cleared")
             /\ CartsOf(active_carts', e) = {}
             /\ OthersKept(e)
             /\ Cleared(active_carts', e) = active_carts']_vars

\* a clear has been answered for an employee who has no row now, while the
\* other employee's cart is still stored
C20_Witness ==
    /\ response.result = "cleared"
    /\ CartsOf(active_carts, response.employee_name) = {}
    /\ \E e \in Others(response.employee_name) : CartsOf(active_carts, e) # {}

(***************************************************************************)
(* Claims on cash registers.                                                *)
(***************************************************************************)
\* the sales attributed to a register that are cash-paid and completed
CompletedCashSalesOf(id) ==
    {s \in sales : s.cash_register = id /\ s.payment_method = "cash"
                      /\ s.status = "completed"}

\* opening float + cash in - cash out + totals of the completed cash sales
ExpectedCash(r) ==
    r.initial_amount + SumBy(MovementsOf(r.id, "in"), "amount")
        - SumBy(MovementsOf(r.id, "out"), "amount")
        + SumBy(CompletedCashSalesOf(r.id), "total")

\* C21: the expected amount that a register calculates is its opening float
\* plus its movements in, minus its movements out, plus the totals of its
\* attributed sales that are completed and cash-paid; every other attributed
\* sale adds nothing, and a register without movements and sales expects
\* its opening float.
C21_ExpectedIsFloatMovementsAndCompletedCashSales ==
    \A r \in registers :
        /\ CalculateExpectedAmount(r) = ExpectedCash(r)
        /\ (movements = {} /\ sales = {}) =>
               CalculateExpectedAmount(r) = r.initial_amount

\* C22: closing an open register with a counted amount leaves it closed,
\* stamped with the time of the close, holding the counted amount and the
\* notes, the expected cash of that moment and the difference counted minus
\* expected.
C22_CloseStoresExpectedAndDifference ==
    [][\A id \in RegisterIds, final_amount \in FinalAmounts, notes \in ClosingNotes :
          \A r \in registers :
              (r.id = id /\ r.status = "open"
                  /\ CloseRegister(id, final_amount, notes)) =>
                 \E c \in registers' :
                     /\ c.id = id
                     /\ c.status = "closed"
                     /\ c.closed_at = Value(now)
                     /\ c.final_amount = Value(final_amount)
                     /\ c.closing_notes = notes
                     /\ c.expected_amount = Value(ExpectedCash(r))
                     /\ c.difference = Value(final_amount - ExpectedCash(r))]_vars

\* C23: a closed register stays as its close left it: no step changes its
\* status, counted amount, expected amount, difference, closing notes or
\* close time, and none opens it again.
C23_ClosedRegisterIsFrozen ==
    [][\A r \in registers : r.status = "closed" => r \in registers']_vars

\* C24: no movement and no attributed sale is added to a closed register,
\* so the expected amount stored on a closed register stays the expected
\* cash of the movements and sales it has: where it is that before a step,
\* it is that after the step.
C24_ClosedRegisterInputsFrozen ==
    [][\A r \in registers :
          r.status = "closed" =>
              /\ {m \in movements' : m.cash_register = r.id}
                    = {m \in movements : m.cash_register = r.id}
              /\ {s \in sales' : s.cash_register = r.id}
                    = {s \in sales : s.cash_register = r.id}
              /\ r.expected_amount = Value(ExpectedCash(r)) =>
                    \A c \in registers' :
                        c.id = r.id => c.expected_amount = Value(ExpectedCash(c)')]_vars

(***************************************************************************)
(* Claims on concurrent requests.                                           *)
(***************************************************************************)
\* C25: whatever state a reader finds, also between the writes of a
\* finalize request, every stored sale whose status is completed has its
\* total equal to the sum of its stored lines' line_total minus its
\* discount_amount, its subtotal equal to the sum of their net_amount and
\* its tax_amount equal to the sum of their tax_amount.
C25_ReaderSeesConsistentSale ==
    \A s \in sales : s.status = "completed" => TotalsAreSums(s.id)

\* C26: a parked ticket is recovered with success at most once, however the
\* lookups, expiry checks and deletes of concurrent recoveries interleave:
\* every recovery that answers success with the snapshot is the one that
\* removes the ticket, so a second one finds it gone and is not answered
\* success.
C26_RecoveredAtMostOnce ==
    [][\A p \in Procs :
          (pc[p] = "recover_delete" /\ pc'[p] = "idle"
              /\ response'.proc = p /\ response'.result = "recovered") =>
             \E t \in tickets : t.id = response'.ticket_id]_vars

(***************************************************************************)
(* Claims on numbering past 9999 and on retries.                            *)
(***************************************************************************)
\* the prefix has issued its last four-digit suffix on the day of now
IssuedLastSuffix(x) ==
    \E n \in issued :
        /\ n.prefix = x
        /\ n.date = DateKey(now)
        /\ ParseInt(n.suffix) >= Pow10(PadWidth) - 1

\* C27: once 9999 has been issued for a prefix and day, a further save never
\* computes a number that exists already: the number it generates is distinct
\* from every number issued that day (there is no NumberingExhausted in the
\* code, so a generated number is the only outcome).
C27_NumberingSurvivesOverflow ==
    [][\A p \in Procs :
          /\ (pc[p] = "idle" /\ pc'[p] = "sale_insert" /\ IssuedLastSuffix("SALE"))
                => saleInst'[p].sale_number \notin issued
          /\ (pc[p] = "idle" /\ pc'[p] = "park_insert" /\ IssuedLastSuffix("PARK"))
                => ticketInst'[p].ticket_number \notin issued]_vars

\* C28: a request whose number was taken by a concurrent request computes
\* the next number and tries again, so the conflict reaches the caller only
\* when trying again cannot help: whenever a save is refused by the
\* uniqueness constraint, the number computed afresh at that moment is taken
\* as well.
C28_ConflictSurfacesOnlyAfterRetries ==
    [][\A p \in Procs :
          /\ (pc[p] = "sale_insert" /\ pc'[p] = "idle"
                 /\ response' = Response(p, "IntegrityError"))
                => UniqueViolation(SaleNumbers,
                       GenerateNumber(SaleNumbers, "SALE", DateKey(now)))
          /\ (pc[p] = "park_insert" /\ pc'[p] = "idle"
                 /\ response' = Response(p, "IntegrityError"))
                => UniqueViolation(TicketNumbers,
                       GenerateNumber(TicketNumbers, "PARK", DateKey(now)))]_vars

(***************************************************************************)
(* Claims on side effects and on the tax policy.                            *)
(***************************************************************************)
\* C29: a stock decrement that fails during a finalize request is caught:
\* its error never becomes the answer of the request, which goes on to
\* calculate the totals and answers success, so that no completed sale is
\* left without the totals of its lines.
C29_StockFailureDoesNotFailSale ==
    /\ response.result # InvalidLiteral
    /\ \A s \in sales :
          (s.status = "completed"
              /\ \E i \in sale_items : i.sale = s.id /\ i.quantity % 100 # 0)
             => s.id \in totalled

\* C30: a stored line keeps its net_amount, tax_amount and line_total under
\* every step, whatever the store's tax policy has become: saving the line
\* again with its inputs unchanged and calculating the totals of its sale
\* leave the three amounts as they were first computed.
C30_PolicyChangeKeepsStoredLines ==
    [][\A i \in sale_items : \A j \in sale_items' :
          j.id = i.id =>
             /\ j.net_amount = i.net_amount
             /\ j.tax_amount = i.tax_amount
             /\ j.line_total = i.line_total]_vars

====
